---- MODULE Spec2Model ----
(***************************************************************************)
(* Model of the client portal's file page (src/src/pages/Auth.tsx, the     *)
(* Files component): type classification of loaded file records, storage   *)
(* path extraction, and the download handler with its fallbacks.           *)
(*                                                                         *)
(* Strings are sequences of one-character strings, so that split, indexOf, *)
(* startsWith, toLowerCase and decodeURIComponent are computed and not     *)
(* assumed.                                                                *)
(***************************************************************************)
EXTENDS Integers, Sequences, FiniteSets, TLC

(***************************************************************************)
(* Characters and JavaScript string primitives                             *)
(***************************************************************************)

\* The 128 ASCII characters, Ascii[b + 1] being the character of code b.
\* Control characters and the grave accent are written <hh>.
Ascii ==
  <<
    "<00>", "<01>", "<02>", "<03>", "<04>", "<05>", "<06>", "<07>",
    "<08>", "<09>", "<0A>", "<0B>", "<0C>", "<0D>", "<0E>", "<0F>",
    "<10>", "<11>", "<12>", "<13>", "<14>", "<15>", "<16>", "<17>",
    "<18>", "<19>", "<1A>", "<1B>", "<1C>", "<1D>", "<1E>", "<1F>",
    " ", "!", "\"", "#", "$", "%", "&", "'",
    "(", ")", "*", "+", ",", "-", ".", "/",
    "0", "1", "2", "3", "4", "5", "6", "7",
    "8", "9", ":", ";", "<", "=", ">", "?",
    "@", "A", "B", "C", "D", "E", "F", "G",
    "H", "I", "J", "K", "L", "M", "N", "O",
    "P", "Q", "R", "S", "T", "U", "V", "W",
    "X", "Y", "Z", "[", "\\", "]", "^", "_",
    "<60>", "a", "b", "c", "d", "e", "f", "g",
    "h", "i", "j", "k", "l", "m", "n", "o",
    "p", "q", "r", "s", "t", "u", "v", "w",
    "x", "y", "z", "{", "|", "}", "~", "<7F>" >>

\* A decoded character outside ASCII; which one is not tracked.
NonAscii == "<U>"

UpperLetters == <<"A","B","C","D","E","F","G","H","I","J","K","L","M","N","O","P","Q","R","S","T","U","V","W","X","Y","Z">>

LowerLetters == <<"a","b","c","d","e","f","g","h","i","j","k","l","m","n","o","p","q","r","s","t","u","v","w","x","y","z">>

Digits == {"0", "1", "2", "3", "4", "5", "6", "7", "8", "9"}

\* String.prototype.toLowerCase on one character (ASCII letters).
LowerChar(c) ==
  IF \E i \in 1..Len(UpperLetters) : UpperLetters[i] = c
    THEN LowerLetters[CHOOSE i \in 1..Len(UpperLetters) : UpperLetters[i] = c]
    ELSE c

toLowerCase(s) == [i \in 1..Len(s) |-> LowerChar(s[i])]

\* String.prototype.startsWith
startsWith(s, p) ==
  /\ Len(s) >= Len(p)
  /\ SubSeq(s, 1, Len(p)) = p

\* String.prototype.includes
includes(s, p) ==
  \E i \in 0..(Len(s) - Len(p)) : SubSeq(s, i + 1, i + Len(p)) = p

\* Index (1-based) of the first occurrence of character c in s, 0 if none.
FirstIndex(s, c) ==
  IF \E i \in 1..Len(s) : s[i] = c
    THEN CHOOSE i \in 1..Len(s) : s[i] = c /\ \A j \in 1..(i - 1) : s[j] # c
    ELSE 0

\* String.prototype.split on a one-character separator: a non-empty
\* sequence of strings ("".split(".") is [""]).
RECURSIVE split(_, _)
split(s, sep) ==
  LET i == FirstIndex(s, sep)
  IN IF i = 0
       THEN <<s>>
       ELSE <<SubSeq(s, 1, i - 1)>> \o split(SubSeq(s, i + 1, Len(s)), sep)

\* Array.prototype.join with a one-character separator.
RECURSIVE join(_, _)
join(parts, sep) ==
  IF Len(parts) = 0 THEN <<>>
  ELSE IF Len(parts) = 1 THEN parts[1]
  ELSE parts[1] \o <<sep>> \o join(Tail(parts), sep)

\* Array.prototype.indexOf, 0-based, -1 if absent.
indexOf(parts, x) ==
  IF \E i \in 1..Len(parts) : parts[i] = x
    THEN (CHOOSE i \in 1..Len(parts) :
            parts[i] = x /\ \A j \in 1..(i - 1) : parts[j] # x) - 1
    ELSE 0 - 1

(***************************************************************************)
(* Type classification of a loaded file record (fetchFiles)                *)
(***************************************************************************)

\* The generic tag "file".
FileTag == <<"f","i","l","e">>

\* The fixed table from MIME type to tag, as <<key, value>> pairs.
mimeToExt ==
  <<
    <<<<"i","m","a","g","e","/","p","n","g">>,
      <<"p","n","g">>>>,
    <<<<"i","m","a","g","e","/","j","p","e","g">>,
      <<"j","p","g">>>>,
    <<<<"i","m","a","g","e","/","j","p","g">>,
      <<"j","p","g">>>>,
    <<<<"i","m","a","g","e","/","g","i","f">>,
      <<"g","i","f">>>>,
    <<<<"i","m","a","g","e","/","s","v","g","+","x","m","l">>,
      <<"s","v","g">>>>,
    <<<<"a","p","p","l","i","c","a","t","i","o","n","/","p","d","f">>,
      <<"p","d","f">>>>,
    <<<<"a","p","p","l","i","c","a","t","i","o","n","/","v","n","d",".","o","p","e","n","x","m","l","f","o","r","m","a","t","s","-","o","f","f","i","c","e","d","o","c","u","m","e","n","t",".","w","o","r","d","p","r","o","c","e","s","s","i","n","g","m","l",".","d","o","c","u","m","e","n","t">>,
      <<"d","o","c","x">>>>,
    <<<<"a","p","p","l","i","c","a","t","i","o","n","/","v","n","d",".","o","p","e","n","x","m","l","f","o","r","m","a","t","s","-","o","f","f","i","c","e","d","o","c","u","m","e","n","t",".","s","p","r","e","a","d","s","h","e","e","t","m","l",".","s","h","e","e","t">>,
      <<"x","l","s","x">>>>,
    <<<<"a","p","p","l","i","c","a","t","i","o","n","/","v","n","d",".","o","p","e","n","x","m","l","f","o","r","m","a","t","s","-","o","f","f","i","c","e","d","o","c","u","m","e","n","t",".","p","r","e","s","e","n","t","a","t","i","o","n","m","l",".","p","r","e","s","e","n","t","a","t","i","o","n">>,
      <<"p","p","t","x">>>>,
    <<<<"t","e","x","t","/","p","l","a","i","n">>,
      <<"t","x","t">>>>,
    <<<<"v","i","d","e","o","/","m","p","4">>,
      <<"m","p","4">>>>,
    <<<<"v","i","d","e","o","/","a","v","i">>,
      <<"a","v","i">>>>,
    <<<<"v","i","d","e","o","/","m","o","v">>,
      <<"m","o","v">>>>,
    <<<<"a","u","d","i","o","/","m","p","3">>,
      <<"m","p","3">>>>,
    <<<<"a","u","d","i","o","/","w","a","v">>,
      <<"w","a","v">>>>,
    <<<<"a","p","p","l","i","c","a","t","i","o","n","/","z","i","p">>,
      <<"z","i","p">>>>,
    <<<<"a","p","p","l","i","c","a","t","i","o","n","/","x","-","r","a","r","-","c","o","m","p","r","e","s","s","e","d">>,
      <<"r","a","r">>>>
  >>

InMimeTable(type) == \E i \in 1..Len(mimeToExt) : mimeToExt[i][1] = type

MimeLookup(type) ==
  mimeToExt[CHOOSE i \in 1..Len(mimeToExt) : mimeToExt[i][1] = type][2]

\* MimeBranch without the table: the part after the separator is always
\* taken.
MimeBranchSplitOnly(type) ==
  IF split(type, "/")[2] # <<>> THEN split(type, "/")[2] ELSE FileTag

\* MimeBranch taking all that follows the first separator, further
\* separators included.
MimeBranchWholeRest(type) ==
  IF InMimeTable(type) THEN MimeLookup(type)
  ELSE IF SubSeq(type, FirstIndex(type, "/") + 1, Len(type)) # <<>>
    THEN SubSeq(type, FirstIndex(type, "/") + 1, Len(type))
  ELSE FileTag

\* fileType after the MIME branch:
\*   mimeToExt[fileType] || fileType.split('/')[1] || 'file'
\* (an empty string is falsy).
MimeBranch(type) ==
  IF InMimeTable(type) THEN MimeLookup(type)
  ELSE IF split(type, "/")[2] # <<>> THEN split(type, "/")[2]
  ELSE FileTag

\* file.name.split('.').pop()?.toLowerCase()
Extension(name) ==
  LET parts == split(name, ".")
  IN toLowerCase(parts[Len(parts)])

\* The type tag given to a record by the processedFiles map.
classify(type, name) ==
  LET fileType == IF type # <<>> /\ includes(type, <<"/">>)
                    THEN MimeBranch(type)
                    ELSE type
  IN IF fileType = <<>> \/ fileType = FileTag
       THEN IF Extension(name) # <<>> THEN Extension(name) ELSE FileTag
       ELSE fileType

(***************************************************************************)
(* decodeURIComponent and the URL parser, as used by extractStoragePath    *)
(***************************************************************************)

HexDigits == <<"0","1","2","3","4","5","6","7","8","9","a","b","c","d","e","f">>

\* Value of a lower-case hexadecimal digit, -1 for any other character.
HexIndex(x) ==
  IF \E i \in 1..Len(HexDigits) : HexDigits[i] = x
    THEN (CHOOSE i \in 1..Len(HexDigits) : HexDigits[i] = x) - 1
    ELSE 0 - 1

\* Value of a hexadecimal digit of either case, -1 for any other character.
HexVal(c) == HexIndex(LowerChar(c))

\* The byte of two hexadecimal digit values, -1 if one is not a digit.
EscapeByte(h1, h2) ==
  IF h1 >= 0 /\ h2 >= 0 THEN 16 * h1 + h2 ELSE 0 - 1

\* The byte written as the escape %XY at s[i..i+2], -1 if there is no
\* well-formed escape there.
EscapeAt(s, i) ==
  IF i + 2 <= Len(s) /\ s[i] = "%"
    THEN EscapeByte(HexVal(s[i + 1]), HexVal(s[i + 2]))
    ELSE 0 - 1

IsCont(b) == b >= 128 /\ b <= 191

\* Number of bytes (1..4) of the well-formed UTF-8 sequence that starts with
\* the bytes b1 .. b4 (-1 for a missing escape), 0 if it is malformed.
Utf8LenOf(b1, b2, b3, b4) ==
  IF b1 < 0 THEN 0
  ELSE IF b1 < 128 THEN 1
  ELSE IF b1 >= 194 /\ b1 <= 223
    THEN IF IsCont(b2) THEN 2 ELSE 0
  ELSE IF b1 >= 224 /\ b1 <= 239
    THEN IF /\ IsCont(b2) /\ IsCont(b3)
            /\ (b1 = 224 => b2 >= 160)
            /\ (b1 = 237 => b2 <= 159)
           THEN 3 ELSE 0
  ELSE IF b1 >= 240 /\ b1 <= 244
    THEN IF /\ IsCont(b2) /\ IsCont(b3) /\ IsCont(b4)
            /\ (b1 = 240 => b2 >= 144)
            /\ (b1 = 244 => b2 <= 143)
           THEN 4 ELSE 0
  ELSE 0

\* Number of escapes (1..4) forming one well-formed UTF-8 sequence at s[i],
\* 0 if the escapes at s[i] are malformed (decodeURIComponent throws
\* URIError).
Utf8Len(s, i) ==
  Utf8LenOf(EscapeAt(s, i), EscapeAt(s, i + 3), EscapeAt(s, i + 6),
            EscapeAt(s, i + 9))

\* The marker that ends the output of DecodeChars at a malformed escape.
URIError == "<URIError>"

\* The characters decodeURIComponent produces from s, ended by URIError at
\* the first malformed escape.
RECURSIVE DecodeChars(_)
\* The output for s, which starts with "%", n being Utf8Len(s, 1).
DecodeEscape(s, n) ==
  IF n = 0 THEN <<URIError>>
  ELSE IF n = 1
    THEN <<Ascii[EscapeAt(s, 1) + 1]>> \o DecodeChars(SubSeq(s, 4, Len(s)))
  ELSE <<NonAscii>> \o DecodeChars(SubSeq(s, 3 * n + 1, Len(s)))

DecodeChars(s) ==
  IF s = <<>> THEN <<>>
  ELSE IF s[1] # "%" THEN <<s[1]>> \o DecodeChars(Tail(s))
  ELSE DecodeEscape(s, Utf8Len(s, 1))

\* The result of decodeURIComponent from the output of DecodeChars.
DecodeResult(out) ==
  IF out # <<>> /\ out[Len(out)] = URIError
    THEN [ok |-> FALSE, value |-> <<>>]
    ELSE [ok |-> TRUE, value |-> out]

\* decodeURIComponent: [ok |-> FALSE] stands for the URIError it throws.
decodeURIComponent(s) == DecodeResult(DecodeChars(s))

IsAlpha(c) ==
  \E i \in 1..Len(LowerLetters) : LowerLetters[i] = LowerChar(c)

IsDigit(c) == c \in Digits

IsSchemeChar(c) == IsAlpha(c) \/ IsDigit(c) \/ c \in {"+", "-", "."}

IsHostChar(c) == IsAlpha(c) \/ IsDigit(c) \/ c \in {"-", ".", "_"}

\* Index of the first character of s at or after i that ends an authority
\* or a path ("/", "?", "#" for an authority; "?", "#" for a path);
\* Len(s) + 1 if none.
FirstOf(s, i, stops) ==
  IF \E k \in i..Len(s) : s[k] \in stops
    THEN CHOOSE k \in i..Len(s) :
           s[k] \in stops /\ \A j \in i..(k - 1) : s[j] \notin stops
    ELSE Len(s) + 1

\* Index of the first character at or after i that is not "/";
\* Len(s) + 1 if none.
SkipSlashes(s, i) ==
  IF \E k \in i..Len(s) : s[k] # "/"
    THEN CHOOSE k \in i..Len(s) : s[k] # "/" /\ \A j \in i..(k - 1) : s[j] = "/"
    ELSE Len(s) + 1

\* Removal of the dot segments "." and ".." from the segments of a path.
RECURSIVE DotSegments(_, _)
DotSegments(segs, acc) ==
  IF segs = <<>> THEN acc
  ELSE LET last == Len(segs) = 1
           seg == Head(segs)
       IN IF seg = <<".">>
            THEN DotSegments(Tail(segs), IF last THEN acc \o <<(<<>>)>> ELSE acc)
          ELSE IF seg = <<".", ".">>
            THEN LET popped == IF acc = <<>> THEN acc
                               ELSE SubSeq(acc, 1, Len(acc) - 1)
                 IN DotSegments(Tail(segs),
                                IF last THEN popped \o <<(<<>>)>> ELSE popped)
          ELSE DotSegments(Tail(segs), acc \o <<seg>>)

\* The pathname of a hierarchical URL from the raw path text ("" or a text
\* starting with "/").
NormalPath(raw, special) ==
  IF raw = <<>> THEN (IF special THEN <<"/">> ELSE <<>>)
  ELSE <<"/">> \o join(DotSegments(split(Tail(raw), "/"), <<>>), "/")

\* new URL(s) without a base, for the properties the page reads:
\* [ok |-> FALSE] stands for the TypeError of an unparseable URL, otherwise
\* pathname is url.pathname.  Covers references made of letters, digits and
\* - . _ / : ? # % (no white space, back slash, credentials or port).
parseURL(s) ==
  LET colon  == FirstIndex(s, ":")
      fail   == [ok |-> FALSE, pathname |-> <<>>]
  IN IF colon <= 1 THEN fail
     ELSE IF ~IsAlpha(s[1]) \/ \E i \in 1..(colon - 1) : ~IsSchemeChar(s[i])
       THEN fail
     ELSE
       LET scheme  == toLowerCase(SubSeq(s, 1, colon - 1))
           special == scheme \in {<<"h","t","t","p">>, <<"h","t","t","p","s">>}
           rest    == SubSeq(s, colon + 1, Len(s))
       IN IF special
            THEN LET hostAt  == SkipSlashes(rest, 1)
                     hostEnd == FirstOf(rest, hostAt, {"/", "?", "#"})
                     host    == SubSeq(rest, hostAt, hostEnd - 1)
                     pathEnd == FirstOf(rest, hostEnd, {"?", "#"})
                 IN IF host = <<>> \/ \E i \in 1..Len(host) : ~IsHostChar(host[i])
                      THEN fail
                      ELSE [ok |-> TRUE,
                            pathname |->
                              NormalPath(SubSeq(rest, hostEnd, pathEnd - 1), TRUE)]
          ELSE IF startsWith(rest, <<"/", "/">>)
            THEN LET hostEnd == FirstOf(rest, 3, {"/", "?", "#"})
                     host    == SubSeq(rest, 3, hostEnd - 1)
                     pathEnd == FirstOf(rest, hostEnd, {"?", "#"})
                 IN IF \E i \in 1..Len(host) : ~IsHostChar(host[i])
                      THEN fail
                      ELSE [ok |-> TRUE,
                            pathname |->
                              NormalPath(SubSeq(rest, hostEnd, pathEnd - 1), FALSE)]
          ELSE LET pathEnd == FirstOf(rest, 1, {"?", "#"})
                   raw     == SubSeq(rest, 1, pathEnd - 1)
               IN [ok |-> TRUE,
                   pathname |-> IF startsWith(raw, <<"/">>)
                                  THEN NormalPath(raw, FALSE)
                                  ELSE raw]

(***************************************************************************)
(* extractStoragePath                                                      *)
(***************************************************************************)

\* The storage bucket, also the marker segment looked for in a URL's path.
Bucket == <<"s","t","u","d","e","n","t","-","f","i","l","e","s">>

\* A stored reference that is not a string (the column is null): calling
\* startsWith on it throws a TypeError.
NullRef == <<"<null>">>

\* Lines 343-354: the part of the path that is decoded, from
\* pathParts = url.pathname.split('/') and bucketIndex.
PathToDecode(pathParts, bucketIndex) ==
  IF bucketIndex # 0 - 1 /\ bucketIndex < Len(pathParts) - 1
    THEN join(SubSeq(pathParts, bucketIndex + 2, Len(pathParts)), "/")
    ELSE pathParts[Len(pathParts)]

StoragePathOf(pathParts) ==
  decodeURIComponent(PathToDecode(pathParts, indexOf(pathParts, Bucket)))

\* Lines 337-358: the try block and its catch, url being new URL(filePath)
\* and decoded the outcome of decodeURIComponent.
TryExtract(filePath, url, decoded) ==
  IF url.ok /\ decoded.ok THEN decoded.value ELSE filePath

\* extractStoragePath without the try/catch of lines 337-358: the exceptions
\* of new URL and decodeURIComponent reach the caller.
extractStoragePathNoCatch(filePath) ==
  IF filePath = NullRef THEN [threw |-> TRUE, value |-> <<>>]
  ELSE IF ~startsWith(filePath, <<"h","t","t","p">>) THEN [threw |-> FALSE, value |-> filePath]
  ELSE [threw |-> ~parseURL(filePath).ok
                  \/ ~StoragePathOf(split(parseURL(filePath).pathname, "/")).ok,
        value |-> TryExtract(filePath, parseURL(filePath),
                             StoragePathOf(split(parseURL(filePath).pathname, "/")))]

\* extractStoragePath(filePath): threw is TRUE when the call throws, value is
\* the returned storage path otherwise.
extractStoragePath(filePath) ==
  IF filePath = NullRef THEN [threw |-> TRUE, value |-> <<>>]
  ELSE IF ~startsWith(filePath, <<"h","t","t","p">>) THEN [threw |-> FALSE, value |-> filePath]
  ELSE [threw |-> FALSE,
        value |-> TryExtract(filePath, parseURL(filePath),
                             StoragePathOf(split(parseURL(filePath).pathname, "/")))]

(***************************************************************************)
(* The download handler (handleDownload) and the platform it runs on       *)
(***************************************************************************)

\* Number of handleDownload calls that may be in flight together.
NCalls == 2

Calls == 1..NCalls

\* Time-to-live, in seconds, asked of createSignedUrl.
SignedUrlTtl == 300

\* The file records a download may be asked for: a bare storage key, a
\* legacy full URL, and a record without a path.
Files ==
  << [name |-> <<"a",".","p","d","f">>, path |-> <<"a",".","p","d","f">>],
     [name |-> <<"b">>, path |-> <<"h","t","t","p","s",":","/","/","h","/","o","/","s","t","u","d","e","n","t","-","f","i","l","e","s","/","d","/","b","%","2","0","c">>],
     [name |-> <<"c">>, path |-> NullRef] >>

\* extractStoragePath(file.path) for each file record a download may be
\* asked for.
StoragePaths ==
  [f \in 1..Len(Files) |-> extractStoragePath(Files[f].path)]

NoUrl == [kind |-> "none", key |-> <<>>, token |-> 0]

VARIABLES
  dl,         \* dl[c]: the local state of call c of handleDownload
  blobStore,  \* the blob URLs created by URL.createObjectURL and not revoked
  timers,     \* the pending setTimeout callbacks
  nextBlob,   \* number of blob URLs created so far
  nextToken,  \* number of signed URLs issued so far
  revoked,    \* the calls of URL.revokeObjectURL made so far
  data,       \* the rows last returned by the query of fetchFiles
  files,      \* the component's files state
  loading,    \* the component's loading state
  refIn,      \* the stored reference given to extractStoragePath
  refOut,     \* what extractStoragePath returned for refIn
  refAgain,   \* what extractStoragePath returned for the value of refOut
  filteredFiles, \* the component's filteredFiles state, the list displayed
  searchTerm,    \* the component's searchTerm state
  selectedType,  \* the component's selectedType state
  filterPending, \* TRUE when the effect of lines 248-250 is due to run
  deleteDialog,  \* AdminStudents: the deleteDialog state
  mutations,     \* AdminStudents: the calls of deleteUserMutation.mutate
  invalidated,   \* AdminStudents: number of invalidateQueries calls made
  adminEvent,    \* AdminStudents: the handler or callback that ran last
  user,          \* Auth: the user useAuth returns
  lookups,       \* Auth: the runs of checkUserRoleAndRedirect
  navigations    \* Auth: the calls of navigate made so far

dlVars == <<dl, blobStore, timers, nextBlob, nextToken, revoked>>

pageVars == <<data, files, loading>>

refVars == <<refIn, refOut, refAgain>>

viewVars == <<filteredFiles, searchTerm, selectedType, filterPending>>

adminVars == <<deleteDialog, mutations, invalidated, adminEvent>>

authVars == <<user, lookups, navigations>>

restVars == <<adminVars, authVars>>

uiVars == <<viewVars, restVars>>

vars ==
  <<dl, blobStore, timers, nextBlob, nextToken, revoked, data, files, loading,
    refIn, refOut, refAgain, filteredFiles, searchTerm, selectedType,
    filterPending, deleteDialog, mutations, invalidated, adminEvent, user,
    lookups, navigations>>

\* No platform response consumed yet.
NoEnv ==
  [sign |-> "unset", public |-> "unset", fetch |-> "unset", blob |-> "unset",
   create |-> "unset", click |-> "unset", open |-> "unset"]

IdleCall ==
  [pc |-> "idle", file |-> 0, storagePath |-> <<>>, requests |-> <<>>,
   grant |-> [source |-> "none", url |-> NoUrl], steps |-> <<>>, created |-> {}, log |-> <<>>,
   result |-> "pending", env |-> NoEnv]

\* extractStoragePath not called yet.
NotRun == [run |-> FALSE, threw |-> FALSE, value |-> <<>>]

\* The component as mounted: useState('...') initial values, no download
\* started.
\* AdminStudents: no user is selected (deleteDialog.user is null).
NoStudent == "null"

\* AdminStudents, lines 17-20 and 122: the dialog closed, no user selected.
ClosedDialog == [isOpen |-> FALSE, user |-> NoStudent]

\* AdminStudents: no handler has run yet.
NoEvent == [kind |-> "none", mutation |-> 0]

\* Auth: useAuth returns no user.
SignedOut == "null"

Init ==
  /\ dl = [c \in Calls |-> IdleCall]
  /\ blobStore = {}
  /\ timers = {}
  /\ nextBlob = 0
  /\ nextToken = 0
  /\ revoked = {}
  /\ data = <<>>
  /\ files = <<>>
  /\ loading = TRUE
  /\ refIn = <<>>
  /\ refOut = NotRun
  /\ refAgain = NotRun
  /\ filteredFiles = <<>>
  /\ searchTerm = <<>>
  /\ selectedType = <<"a","l","l">>
  /\ filterPending = FALSE
  /\ deleteDialog = ClosedDialog
  /\ mutations = <<>>
  /\ invalidated = 0
  /\ adminEvent = NoEvent
  /\ user = SignedOut
  /\ lookups = <<>>
  /\ navigations = <<>>

\* Handler with the inner catch block left outside the outer try: an
\* exception of window.open is caught by nothing.
HandlerOpenUncaught(site) ==
  IF site \in {"fetch", "blob", "create", "click"} THEN "inner"
  ELSE IF site = "open" THEN "none"
  ELSE "outer"

\* The try block that catches an exception thrown at a site of
\* handleDownload: the inner try (fetch .. setTimeout) or the outer one
\* (the whole body, the inner catch block included).
Handler(site) ==
  IF site \in {"fetch", "blob", "create", "click"} THEN "inner" ELSE "outer"

\* The promise of an async function whose body ran to its end or returned.
Return(r) == [r EXCEPT !.pc = "done", !.result = "undefined"]

\* The promise of an async function out of which an exception escaped.
Reject(r) == [r EXCEPT !.pc = "done", !.result = "rejected"]

\* catch (error) { console.error('Download failed:', error); }
OuterCatch(r) ==
  Return([r EXCEPT !.log = Append(@, "Download failed:")])

\* An exception thrown outside the inner try.
RaiseOuter(r, site) ==
  IF Handler(site) = "outer" THEN OuterCatch(r) ELSE Reject(r)

\* DeliveryUrl with a cache of signed URLs keyed by storage path: the
\* earliest signed URL any call holds for the path is used again.
DeliveryUrlCached(r) ==
  LET hits == {c \in Calls : /\ dl[c].grant.source = "signed"
                             /\ dl[c].grant.url.key = r.storagePath}
  IN IF hits = {} THEN r.grant.url
     ELSE dl[CHOOSE c \in hits :
               \A c2 \in hits : dl[c].grant.url.token <= dl[c2].grant.url.token].grant.url

\* The URL handed to fetch and to window.open: data.signedUrl.
DeliveryUrl(r) == r.grant.url

\* catch (fetchError) { console.error(...); window.open(data.signedUrl, ...) }
\* open is the platform's answer: "opened", "blocked" (null is returned) or
\* "throw".
InnerCatch(r, open) ==
  LET r1 == [r EXCEPT
               !.log = Append(@, "Fetch failed, trying direct link:"),
               !.steps = Append(@, [kind |-> "windowOpen", url |-> DeliveryUrl(r),
                                    name |-> <<>>, outcome |-> open]),
               !.env.open = open]
  IN IF open = "throw" THEN RaiseOuter(r1, "open") ELSE Return(r1)

\* An exception thrown at a site of the handler.
Raise(r, site, open) ==
  IF Handler(site) = "inner" THEN InnerCatch(r, open) ELSE RaiseOuter(r, site)

\* SignedUrlRequest made for the stored reference as it is, not for the
\* extracted storage path.
SignedUrlRequestRaw(r) ==
  [op |-> "createSignedUrl", key |-> Files[r.file].path, ttl |-> SignedUrlTtl,
   url |-> NoUrl]

\* The request made to the object store for a signed URL.
SignedUrlRequest(r) ==
  [op |-> "createSignedUrl", key |-> r.storagePath, ttl |-> SignedUrlTtl,
   url |-> NoUrl]

\* The request made to the object store for a public URL.
PublicUrlRequest(r) ==
  [op |-> "getPublicUrl", key |-> r.storagePath, ttl |-> 0, url |-> NoUrl]

\* Lines 361-369: the call up to the await of createSignedUrl.
Call(c, f) ==
  /\ dl[c].pc = "idle"
  /\ LET r == [dl[c] EXCEPT !.file = f]
         path == StoragePaths[f]
     IN dl' = [dl EXCEPT ![c] =
                 IF path.threw
                   THEN RaiseOuter(r, "extractStoragePath")
                   ELSE LET r1 == [r EXCEPT !.storagePath = path.value,
                                            !.log = Append(@, "Downloading from storage path:")]
                        IN [r1 EXCEPT !.pc = "signing",
                                      !.requests = Append(@, SignedUrlRequest(r1))]]
  /\ UNCHANGED <<blobStore, timers, nextBlob, nextToken, revoked, pageVars, refVars, uiVars>>

SignedUrl(key, n) == [kind |-> "signed", key |-> key, token |-> n]

PublicUrl(key) == [kind |-> "public", key |-> key, token |-> 0]

BlobUrl(n) == [kind |-> "blob", key |-> <<>>, token |-> n]

\* The last request of the call, answered with url.
Answered(r, url) ==
  [r EXCEPT !.requests = [@ EXCEPT ![Len(@)].url = url]]

\* PublicFallback without the return of line 389: after the click on the
\* public URL the handler goes on to fetch.
PublicFallbackNoReturn(r, public, click) ==
  LET r1 == [r EXCEPT !.log = Append(@, "Error creating download URL:"),
                      !.requests = Append(@, PublicUrlRequest(r)),
                      !.env.public = public]
  IN IF public = "throw" THEN RaiseOuter(r1, "getPublicUrl")
     ELSE IF public = "empty" THEN Return(r1)
     ELSE LET r2 == [Answered(r1, PublicUrl(r.storagePath)) EXCEPT
                       !.grant = [source |-> "public",
                                  url |-> PublicUrl(r.storagePath)]]
              r3 == [r2 EXCEPT
                       !.steps = Append(@, [kind |-> "directLink",
                                            url |-> r2.grant.url,
                                            name |-> Files[r.file].name,
                                            outcome |-> click]),
                       !.env.click = click]
          IN IF click = "throw" THEN RaiseOuter(r3, "publicClick")
             ELSE [r3 EXCEPT !.pc = "fetching"]

\* Lines 371-392: the branch taken when createSignedUrl answered with an
\* error.  public is the answer of getPublicUrl ("url", "empty" or "throw"),
\* click that of appending and clicking the anchor ("ok" or "throw").
PublicFallback(r, public, click) ==
  LET r1 == [r EXCEPT !.log = Append(@, "Error creating download URL:"),
                      !.requests = Append(@, PublicUrlRequest(r)),
                      !.env.public = public]
  IN IF public = "throw" THEN RaiseOuter(r1, "getPublicUrl")
     ELSE IF public = "empty" THEN Return(r1)
     ELSE LET r2 == [Answered(r1, PublicUrl(r.storagePath)) EXCEPT
                       !.grant = [source |-> "public",
                                  url |-> PublicUrl(r.storagePath)]]
              r3 == [r2 EXCEPT
                       !.steps = Append(@, [kind |-> "directLink",
                                            url |-> r2.grant.url,
                                            name |-> Files[r.file].name,
                                            outcome |-> click]),
                       !.env.click = click]
          IN IF click = "throw" THEN RaiseOuter(r3, "publicClick")
             ELSE Return(r3)

\* Lines 369-402: createSignedUrl answers; on success fetch is called.
SignedUrlResponse(c, sign, public, click) ==
  /\ dl[c].pc = "signing"
  /\ LET r == [dl[c] EXCEPT !.env.sign = sign]
     IN /\ dl' = [dl EXCEPT ![c] =
                    IF sign = "throw" THEN RaiseOuter(r, "createSignedUrl")
                    ELSE IF sign = "error" THEN PublicFallback(r, public, click)
                    ELSE [Answered(r, SignedUrl(r.storagePath, nextToken + 1)) EXCEPT
                            !.grant = [source |-> "signed",
                                       url |-> SignedUrl(r.storagePath, nextToken + 1)],
                            !.pc = "fetching"]]
        /\ nextToken' = IF sign = "ok" THEN nextToken + 1 ELSE nextToken
        /\ timers' = IF sign = "error" /\ public = "url" /\ click = "ok"
                       THEN timers \cup {[owner |-> c, blob |-> 0]}
                       ELSE timers
  /\ UNCHANGED <<blobStore, nextBlob, revoked, pageVars, refVars, uiVars>>

\* FetchResponse with a further await after a successful response, on a
\* confirmation that nothing in the program ever answers.
FetchResponseAwaitsConfirm(c, fetch, open) ==
  /\ dl[c].pc = "fetching"
  /\ LET r == [dl[c] EXCEPT
                 !.steps = Append(@, [kind |-> "fetch", url |-> DeliveryUrl(dl[c]),
                                      name |-> <<>>, outcome |-> fetch]),
                 !.env.fetch = fetch]
     IN dl' = [dl EXCEPT ![c] =
                 IF fetch = "ok" THEN [r EXCEPT !.pc = "confirming"]
                 ELSE Raise(r, "fetch", open)]
  /\ UNCHANGED <<blobStore, timers, nextBlob, nextToken, revoked, pageVars, refVars, uiVars>>

\* FetchResponse without the test of response.ok (line 404): a response with
\* a non-success status goes on to response.blob() like a successful one.
FetchResponseNoOkCheck(c, fetch, open) ==
  /\ dl[c].pc = "fetching"
  /\ LET r == [dl[c] EXCEPT
                 !.steps = Append(@, [kind |-> "fetch", url |-> DeliveryUrl(dl[c]),
                                      name |-> <<>>, outcome |-> fetch]),
                 !.env.fetch = fetch]
     IN dl' = [dl EXCEPT ![c] =
                 IF fetch \in {"ok", "status"} THEN [r EXCEPT !.pc = "blobbing"]
                 ELSE Raise(r, "fetch", open)]
  /\ UNCHANGED <<blobStore, timers, nextBlob, nextToken, revoked, pageVars, refVars, uiVars>>

\* Lines 396-408 and 426-430: fetch answers ("ok", "status" for a response
\* that is not ok, "neterr" for a rejected request).
FetchResponse(c, fetch, open) ==
  /\ dl[c].pc = "fetching"
  /\ LET r == [dl[c] EXCEPT
                 !.steps = Append(@, [kind |-> "fetch", url |-> DeliveryUrl(dl[c]),
                                      name |-> <<>>, outcome |-> fetch]),
                 !.env.fetch = fetch]
     IN dl' = [dl EXCEPT ![c] =
                 IF fetch = "ok" THEN [r EXCEPT !.pc = "blobbing"]
                 ELSE Raise(r, "fetch", open)]
  /\ UNCHANGED <<blobStore, timers, nextBlob, nextToken, revoked, pageVars, refVars, uiVars>>

\* BlobResponse with the window.open of the catch block (line 429) placed
\* after the try statement: it runs after a successful save as well.
BlobResponseFallThrough(c, blob, create, click, open) ==
  /\ dl[c].pc = "blobbing"
  /\ LET id == nextBlob + 1
         created == blob = "ok" /\ create = "ok"
         r  == [dl[c] EXCEPT !.env.blob = blob]
         r1 == [r EXCEPT !.env.create = create]
         r2 == [r1 EXCEPT
                  !.created = @ \cup {id},
                  !.steps = Append(@, [kind |-> "blobSave", url |-> BlobUrl(id),
                                       name |-> Files[r.file].name,
                                       outcome |-> click]),
                  !.env.click = click]
     IN /\ dl' = [dl EXCEPT ![c] =
                    IF blob = "throw" THEN Raise(r, "blob", open)
                    ELSE IF create = "throw" THEN Raise(r1, "create", open)
                    ELSE InnerCatch(r2, open)]
        /\ nextBlob' = IF created THEN id ELSE nextBlob
        /\ blobStore' = IF created THEN blobStore \cup {id} ELSE blobStore
        /\ timers' = IF created /\ click = "ok"
                       THEN timers \cup {[owner |-> c, blob |-> id]}
                       ELSE timers
  /\ UNCHANGED <<nextToken, revoked, pageVars, refVars, uiVars>>

\* Lines 408-430: response.blob() answers; on success the blob URL is
\* created, the anchor clicked and the clean-up scheduled, all in one turn
\* of the event loop.
BlobResponse(c, blob, create, click, open) ==
  /\ dl[c].pc = "blobbing"
  /\ LET id == nextBlob + 1
         created == blob = "ok" /\ create = "ok"
         r  == [dl[c] EXCEPT !.env.blob = blob]
         r1 == [r EXCEPT !.env.create = create]
         r2 == [r1 EXCEPT
                  !.created = @ \cup {id},
                  !.steps = Append(@, [kind |-> "blobSave", url |-> BlobUrl(id),
                                       name |-> Files[r.file].name,
                                       outcome |-> click]),
                  !.env.click = click]
     IN /\ dl' = [dl EXCEPT ![c] =
                    IF blob = "throw" THEN Raise(r, "blob", open)
                    ELSE IF create = "throw" THEN Raise(r1, "create", open)
                    ELSE IF click = "throw" THEN Raise(r2, "click", open)
                    ELSE Return([r2 EXCEPT
                                   !.log = Append(@, "Download completed successfully")])]
        /\ nextBlob' = IF created THEN id ELSE nextBlob
        /\ blobStore' = IF created THEN blobStore \cup {id} ELSE blobStore
        /\ timers' = IF created /\ click = "ok"
                       THEN timers \cup {[owner |-> c, blob |-> id]}
                       ELSE timers
  /\ UNCHANGED <<nextToken, revoked, pageVars, refVars, uiVars>>

\* RevokedBy with the blob URL kept in a variable shared by all calls: the
\* blob URL created last is the one revoked.
RevokedByLatest(t) == nextBlob

\* Line 422: the blob URL a clean-up revokes, the blobUrl of its own call.
RevokedBy(t) == t.blob

\* Lines 388 and 420-423: a scheduled clean-up runs; the one of the blob
\* path revokes its blob URL (blob is 0 for the clean-up of the public URL
\* path, which only removes the anchor).  Each revocation is recorded with
\* the call it came from and whether the blob URL was still live.
TimerFire(t) ==
  /\ t \in timers
  /\ timers' = timers \ {t}
  /\ blobStore' = IF t.blob = 0 THEN blobStore ELSE blobStore \ {RevokedBy(t)}
  /\ revoked' = IF t.blob = 0 THEN revoked
                ELSE revoked \cup {[by |-> t.owner, blob |-> RevokedBy(t),
                                    live |-> RevokedBy(t) \in blobStore]}
  /\ UNCHANGED <<dl, nextBlob, nextToken, pageVars, refVars, uiVars>>

Next ==
  \/ \E c \in Calls, f \in 1..Len(Files) : Call(c, f)
  \/ \E c \in Calls, sign \in {"ok", "error", "throw"},
        public \in {"url", "empty", "throw"}, click \in {"ok", "throw"} :
       SignedUrlResponse(c, sign, public, click)
  \/ \E c \in Calls, fetch \in {"ok", "status", "neterr"},
        open \in {"opened", "blocked", "throw"} :
       FetchResponse(c, fetch, open)
  \/ \E c \in Calls, blob \in {"ok", "throw"}, create \in {"ok", "throw"},
        click \in {"ok", "throw"}, open \in {"opened", "blocked", "throw"} :
       BlobResponse(c, blob, create, click, open)
  \/ \E t \in timers : TimerFire(t)

Spec == Init /\ [][Next]_vars

\* The files downloaded when termination is checked: one whose path is a
\* storage path and the one whose path is null.
LiveFiles == {1, 3}

NextLive ==
  \/ \E c \in Calls, f \in LiveFiles : Call(c, f)
  \/ \E c \in Calls, sign \in {"ok", "error", "throw"},
        public \in {"url", "empty", "throw"}, click \in {"ok", "throw"} :
       SignedUrlResponse(c, sign, public, click)
  \/ \E c \in Calls, fetch \in {"ok", "status", "neterr"},
        open \in {"opened", "blocked", "throw"} :
       FetchResponse(c, fetch, open)
  \/ \E c \in Calls, blob \in {"ok", "throw"}, create \in {"ok", "throw"},
        click \in {"ok", "throw"}, open \in {"opened", "blocked", "throw"} :
       BlobResponse(c, blob, create, click, open)
  \/ \E t \in timers : TimerFire(t)

\* The downloads with the remote requests answering: the signing request
\* (line 367) and the retrieval request (line 396) of every call are
\* eventually answered and every scheduled clean-up eventually runs.  Nothing
\* is assumed of response.blob() (line 408).
SpecLive ==
  /\ Init /\ [][NextLive]_vars
  /\ \A c \in Calls :
       /\ WF_vars(\E sign \in {"ok", "error", "throw"},
                     public \in {"url", "empty", "throw"}, click \in {"ok", "throw"} :
                    SignedUrlResponse(c, sign, public, click))
       /\ WF_vars(\E fetch \in {"ok", "status", "neterr"},
                     open \in {"opened", "blocked", "throw"} :
                    FetchResponse(c, fetch, open))
  /\ WF_vars(\E t \in timers : TimerFire(t))

(***************************************************************************)
(* Loading the file list (fetchFiles)                                      *)
(***************************************************************************)

\* Longest list of rows the query returns.
MaxRows == 2

\* Type metadata as stored: empty, the generic tag, a bare extension, a
\* MIME type of the table, MIME types outside it.
RawTypes ==
  { <<>>, FileTag, <<"P","D","F">>, <<"i","m","a","g","e","/","p","n","g">>, <<"a","/","b","/","c">>, <<"a","/">> }

\* File names: empty, without a dot, with an extension, ending in a dot,
\* with an upper-case extension.
RawNames ==
  { <<>>, <<"R","E","A","D","M","E">>, <<"n","o","t","e","s",".","d","o","c","x">>, <<"a",".">>, <<"P","h","o","t","o",".","P","N","G">> }

RawRows == [type : RawTypes, name : RawNames]

RowLists == UNION {[1..n -> RawRows] : n \in 0..MaxRows}

\* Lines 263-301: the processedFiles map, { ...file, type: fileType }.
processedFiles(rows) ==
  [i \in 1..Len(rows) |->
     [rows[i] EXCEPT !.type = classify(rows[i].type, rows[i].name)]]

\* Lines 252-310: the query answers with rows; files is set, loading ends;
\* files being a dependency of the effect of lines 248-250, that effect is due.
FetchFilesOk(rows) ==
  /\ loading
  /\ data' = rows
  /\ files' = processedFiles(rows)
  /\ loading' = FALSE
  /\ filterPending' = TRUE
  /\ UNCHANGED <<dlVars, refVars, filteredFiles, searchTerm, selectedType, restVars>>

\* Lines 260 and 305-309: the query answers with an error; it is thrown,
\* caught and logged, files is left as it was.
FetchFilesError ==
  /\ loading
  /\ loading' = FALSE
  /\ UNCHANGED <<data, files, dlVars, refVars, uiVars>>

NextFiles ==
  \/ \E rows \in RowLists : FetchFilesOk(rows)
  \/ FetchFilesError

SpecFiles == Init /\ [][NextFiles]_vars

(***************************************************************************)
(* The displayed list (filterFiles and the effect that runs it)            *)
(***************************************************************************)

All == <<"a","l","l">>

\* file.description && ...: null and the empty string are falsy.
Truthy(text) == text # NullRef /\ text # <<>>

\* Lines 316-319: the test of the search filter.
MatchesSearch(file, term) ==
  \/ includes(toLowerCase(file.name), toLowerCase(term))
  \/ Truthy(file.description)
       /\ includes(toLowerCase(file.description), toLowerCase(term))

\* Lines 315-320: the search filter, applied when searchTerm is not empty.
SearchFiltered(list, term) ==
  IF term # <<>>
    THEN LET Test(file) == MatchesSearch(file, term) IN SelectSeq(list, Test)
    ELSE list

\* Lines 322-324: the type filter, applied when selectedType is not 'all'.
TypeFiltered(list, type) ==
  IF type # All
    THEN LET Test(file) == file.type = type IN SelectSeq(list, Test)
    ELSE list

\* filterFiles with the search term compared as typed, without toLowerCase.
filterFilesCaseSensitive(list, term, type) ==
  TypeFiltered(
    IF term # <<>>
      THEN LET Test(file) ==
                 \/ includes(file.name, term)
                 \/ Truthy(file.description) /\ includes(file.description, term)
           IN SelectSeq(list, Test)
      ELSE list,
    type)

\* Lines 312-327: the value filterFiles passes to setFilteredFiles.
filterFiles(list, term, type) == TypeFiltered(SearchFiltered(list, term), type)

\* The rows of the files table shown on the page: name, type metadata and
\* description (null, empty or a text).
ViewRows ==
  { [name |-> <<"R","e","p","o","r","t",".","P","D","F">>, type |-> <<"a","p","p","l","i","c","a","t","i","o","n","/","p","d","f">>, description |-> NullRef],
    [name |-> <<"n","o","t","e","s",".","d","o","c","x">>, type |-> <<>>, description |-> <<"F","i","n","a","l"," ","r","e","p","o","r","t">>],
    [name |-> <<"a",".","p","d","f">>, type |-> <<"p","d","f">>, description |-> <<>>],
    [name |-> <<"R","E","A","D","M","E">>, type |-> <<>>, description |-> <<"s","e","e"," ","N","o","t","e","s">>] }

\* Longest list of rows the page is loaded with.
MaxViewRows == 2

ViewLists == UNION {[1..n -> ViewRows] : n \in 0..MaxViewRows}

\* What the user types into the search box.
SearchTerms == { <<>>, <<"r","e","p">>, <<"N","O","T","E","S">>, <<"z","i","p">>, <<".">> }

\* uniqueTypes (line 468): the options of the type select.
uniqueTypes == {All} \cup {files[i].type : i \in 1..Len(files)}

\* Lines 242-246 and 252-310: fetchFiles runs again for a changed user and
\* the query answers with rows.
RefetchFilesOk(rows) ==
  /\ ~loading
  /\ ~filterPending
  /\ data' = rows
  /\ files' = processedFiles(rows)
  /\ filterPending' = TRUE
  /\ UNCHANGED <<loading, dlVars, refVars, filteredFiles, searchTerm, selectedType, restVars>>

\* Line 490: onChange of the search box, rendered once loading is over
\* (line 470).
SetSearchTerm(term) ==
  /\ ~loading
  /\ ~filterPending
  /\ term # searchTerm
  /\ searchTerm' = term
  /\ filterPending' = TRUE
  /\ UNCHANGED <<filteredFiles, selectedType, dlVars, pageVars, refVars, restVars>>

\* Line 498: onChange of the type select, rendered once loading is over.
SetSelectedType(type) ==
  /\ ~loading
  /\ ~filterPending
  /\ type \in uniqueTypes
  /\ type # selectedType
  /\ selectedType' = type
  /\ filterPending' = TRUE
  /\ UNCHANGED <<filteredFiles, searchTerm, dlVars, pageVars, refVars, restVars>>

\* Lines 248-250: the effect runs filterFiles on the state of the render it
\* belongs to.
FilterEffect ==
  /\ filterPending
  /\ filteredFiles' = filterFiles(files, searchTerm, selectedType)
  /\ filterPending' = FALSE
  /\ UNCHANGED <<searchTerm, selectedType, dlVars, pageVars, refVars, restVars>>

\* React runs the effects of a render before it handles the next state
\* change, so the three changes above wait for a due effect (~filterPending).
NextView ==
  \/ \E rows \in ViewLists : FetchFilesOk(rows)
  \/ \E rows \in ViewLists : RefetchFilesOk(rows)
  \/ \E term \in SearchTerms : SetSearchTerm(term)
  \/ \E type \in uniqueTypes : SetSelectedType(type)
  \/ FilterEffect

SpecView == Init /\ [][NextView]_vars

(***************************************************************************)
(* The delete-user dialog of AdminStudents                                 *)
(***************************************************************************)

\* The students listed on the page, by id.
Students == {"s1", "s2"}

\* Number of deleteUserMutation.mutate calls followed.
MaxMutations == 2

Event(kind, i) == [kind |-> kind, mutation |-> i]

\* AdminStudents lines 111-113: handleDeleteUser(user).
handleDeleteUser(student) ==
  /\ deleteDialog' = [isOpen |-> TRUE, user |-> student]
  /\ adminEvent' = Event("handleDeleteUser", 0)
  /\ UNCHANGED <<mutations, invalidated>>

\* handleConfirmDelete without the test of deleteDialog.user: mutate is
\* called with the id of whatever is selected.
ConfirmedUnchecked(dialog) == TRUE

\* AdminStudents line 116: if (deleteDialog.user).
Confirmed(dialog) == dialog.user # NoStudent

\* AdminStudents lines 115-119: handleConfirmDelete; mutate starts
\* mutationFn, which awaits getSession (line 77).
handleConfirmDelete ==
  /\ Len(mutations) < MaxMutations
  /\ mutations' = IF Confirmed(deleteDialog)
                    THEN Append(mutations, [userId |-> deleteDialog.user,
                                            pc |-> "getSession",
                                            status |-> "pending",
                                            error |-> "none"])
                    ELSE mutations
  /\ adminEvent' = Event("handleConfirmDelete", 0)
  /\ UNCHANGED <<deleteDialog, invalidated>>

\* AdminStudents lines 121-123: handleCloseDeleteDialog.
handleCloseDeleteDialog ==
  /\ deleteDialog' = ClosedDialog
  /\ adminEvent' = Event("handleCloseDeleteDialog", 0)
  /\ UNCHANGED <<mutations, invalidated>>

\* AdminStudents lines 100-104: onSuccess of mutation i.
onSuccess(i) ==
  /\ mutations' = [mutations EXCEPT ![i].pc = "settled", ![i].status = "success"]
  /\ invalidated' = invalidated + 1
  /\ deleteDialog' = ClosedDialog
  /\ adminEvent' = Event("onSuccess", i)

\* onError that closes the dialog as onSuccess does.
onErrorClosesDialog(i, error) ==
  /\ mutations' = [mutations EXCEPT ![i].pc = "settled", ![i].status = "error",
                                     ![i].error = error]
  /\ deleteDialog' = ClosedDialog
  /\ adminEvent' = Event("onError", i)
  /\ UNCHANGED invalidated

\* AdminStudents lines 105-108: onError of mutation i, error being what
\* mutationFn threw.
onError(i, error) ==
  /\ mutations' = [mutations EXCEPT ![i].pc = "settled", ![i].status = "error",
                                     ![i].error = error]
  /\ adminEvent' = Event("onError", i)
  /\ UNCHANGED <<deleteDialog, invalidated>>

\* AdminStudents lines 77-81: getSession answers with a session, with none,
\* or throws; with a session the delete request is sent (line 83).
SessionResponse(i, session) ==
  /\ i \in 1..Len(mutations)
  /\ mutations[i].pc = "getSession"
  /\ CASE session = "active" ->
            /\ mutations' = [mutations EXCEPT ![i].pc = "fetch"]
            /\ adminEvent' = Event("getSession", i)
            /\ UNCHANGED <<deleteDialog, invalidated>>
       [] session = "none" -> onError(i, "No active session")
       [] OTHER -> onError(i, "getSession threw")
  /\ UNCHANGED <<dlVars, pageVars, refVars, viewVars, authVars>>

\* AdminStudents lines 83-98: the delete request answers: fetch resolves with
\* a success status, with another status, or rejects; response.json()
\* (line 92) returns or throws.
DeleteResponse(i, fetch, json) ==
  /\ i \in 1..Len(mutations)
  /\ mutations[i].pc = "fetch"
  /\ IF fetch = "neterr" THEN onError(i, "fetch rejected")
     ELSE IF json = "throw" THEN onError(i, "response.json threw")
     ELSE IF fetch = "status" THEN onError(i, "Failed to delete user")
     ELSE onSuccess(i)
  /\ UNCHANGED <<dlVars, pageVars, refVars, viewVars, authVars>>

\* The handlers, called from the page and the dialog.
AdminHandler ==
  /\ \/ \E student \in Students : handleDeleteUser(student)
     \/ handleConfirmDelete
     \/ handleCloseDeleteDialog
  /\ UNCHANGED <<dlVars, pageVars, refVars, viewVars, authVars>>

NextAdmin ==
  \/ AdminHandler
  \/ \E i \in 1..MaxMutations, session \in {"active", "none", "throw"} :
       SessionResponse(i, session)
  \/ \E i \in 1..MaxMutations, fetch \in {"ok", "status", "neterr"},
        json \in {"ok", "throw"} :
       DeleteResponse(i, fetch, json)

SpecAdmin == Init /\ [][NextAdmin]_vars

(***************************************************************************)
(* The redirect after login (Auth, checkUserRoleAndRedirect)               *)
(***************************************************************************)

\* The users that sign in.
Users == {"u1", "u2"}

\* Number of runs of checkUserRoleAndRedirect that query the role.
MaxLookups == 2

\* What the query of lines 25-29 answers: an error, a row with a role, no
\* row (data is null), or a rejected promise.
LookupAnswers ==
  {[kind |-> "error", role |-> "none"], [kind |-> "throw", role |-> "none"],
   [kind |-> "data", role |-> "null"]}
  \cup {[kind |-> "data", role |-> r] : r \in {"admin", "student", "Admin"}}

\* Lines 31-46: where checkUserRoleAndRedirect navigates for an answer.
RedirectTarget(answer) ==
  IF answer.kind = "error" THEN "/dashboard"
  ELSE IF answer.kind = "throw" THEN "/dashboard"
  ELSE IF answer.role = "admin" THEN "/admin"
  ELSE "/dashboard"

\* The Auth page is mounted until it has navigated away.
Mounted == navigations = <<>>

\* Lines 19-23 and 50-51: useAuth returns another user (or none); the effect
\* runs again and, for a user, checkUserRoleAndRedirect sends the query.
UserChanged(u) ==
  /\ u # user
  /\ user' = u
  /\ lookups' = IF u # SignedOut /\ Mounted /\ Len(lookups) < MaxLookups
                  THEN Append(lookups, [user |-> u, pc |-> "awaiting",
                                        answer |-> [kind |-> "none", role |-> "none"]])
                  ELSE lookups
  /\ UNCHANGED <<navigations, dlVars, pageVars, refVars, viewVars, adminVars>>

\* Lines 25-46: the query of run i answers and navigate is called.  The
\* call is recorded with the user signed in when it is made.
LookupResponse(i, answer) ==
  /\ i \in 1..Len(lookups)
  /\ lookups[i].pc = "awaiting"
  /\ lookups' = [lookups EXCEPT ![i].pc = "done", ![i].answer = answer]
  /\ navigations' = Append(navigations, [to |-> RedirectTarget(answer),
                                          run |-> i, user |-> user])
  /\ UNCHANGED <<user, dlVars, pageVars, refVars, viewVars, adminVars>>

NextAuth ==
  \/ \E u \in Users \cup {SignedOut} : UserChanged(u)
  \/ \E i \in 1..MaxLookups, answer \in LookupAnswers : LookupResponse(i, answer)

SpecAuth == Init /\ [][NextAuth]_vars

(***************************************************************************)
(* extractStoragePath applied to a stored reference, and applied again     *)
(***************************************************************************)

\* How a stored reference starts: a bare key, URLs with and without the
\* bucket segment, a URL whose dot segment is removed by the parser, a text
\* that starts with "http" and is no URL, a URL that ends with the bucket
\* segment unless a tail extends it.
RefPrefixes ==
  { <<>>,
    <<"h","t","t","p",":","/","/","h","/">>,
    <<"h","t","t","p","s",":","/","/","h","/","o","/","s","t","u","d","e","n","t","-","f","i","l","e","s","/">>,
    <<"h","t","t","p","s",":","/","/","h","/","s","t","u","d","e","n","t","-","f","i","l","e","s","/","d","/">>,
    <<"h","t","t","p",":","/","/","h","/","x","/",".",".","/","s","t","u","d","e","n","t","-","f","i","l","e","s","/">>,
    <<"h","t","t","p","x">>,
    <<"h","t","t","p","s",":","/","/","h","/","s","t","u","d","e","n","t","-","f","i","l","e","s">> }

\* How it goes on: nothing, a file name, an escaped space, malformed
\* escapes, an escaped separator, an escaped URL, a query string, an escaped
\* two-byte character, the bucket segment again.
RefTails ==
  { <<>>,
    <<"a",".","p","d","f">>,
    <<"d","/","b","%","2","0","c">>,
    <<"%","z","z">>,
    <<"a","%">>,
    <<"a","%","2","F","b">>,
    <<"h","t","t","p","%","3","A","%","2","F","%","2","F","h","%","2","F","k">>,
    <<"x","?","q","=","1">>,
    <<"%","C","3","%","A","9">>,
    <<"s","t","u","d","e","n","t","-","f","i","l","e","s","/","k">> }

StoredRefs == {p \o tl : p \in RefPrefixes, tl \in RefTails}

\* Lines 329-359 run for one reference; threw records an exception leaving
\* the call.
Ran(result) ==
  [run |-> TRUE, threw |-> result.threw, value |-> result.value]

\* extractStoragePath is called with a stored reference.
Extract(ref) ==
  /\ ~refOut.run
  /\ refIn' = ref
  /\ refOut' = Ran(extractStoragePath(ref))
  /\ UNCHANGED <<refAgain, dlVars, pageVars, uiVars>>

\* extractStoragePath is called with the storage path it returned.
ExtractAgain ==
  /\ refOut.run /\ ~refOut.threw
  /\ ~refAgain.run
  /\ refAgain' = Ran(extractStoragePath(refOut.value))
  /\ UNCHANGED <<refIn, refOut, dlVars, pageVars, uiVars>>

NextResolve ==
  \/ \E ref \in StoredRefs : Extract(ref)
  \/ ExtractAgain

SpecResolve == Init /\ [][NextResolve]_vars

\* Type metadata outside the table that has a separator: a vendor type,
\* more than one separator, nothing after the separator, the generic tag
\* after the separator.
UnlistedTypes ==
  { <<"a","p","p","l","i","c","a","t","i","o","n","/","j","s","o","n">>, <<"a","/","b","/","c">>, <<"a","/">>, <<"x","/","f","i","l","e">> }

\* Every kind of stored type metadata: the ones of RawTypes, every key of
\* the table, and compound types outside it.
ClassifyTypes ==
  RawTypes \cup {mimeToExt[i][1] : i \in 1..Len(mimeToExt)} \cup UnlistedTypes

\* The lists of one row, over every kind of type metadata.
ClassifyRows == {<<row>> : row \in [type : ClassifyTypes, name : RawNames]}

\* The load of a list of one row: classify applied to one record.
NextClassify ==
  \/ \E rows \in ClassifyRows : FetchFilesOk(rows)
  \/ FetchFilesError

SpecClassify == Init /\ [][NextClassify]_vars

(***************************************************************************)
(* Properties of the download handler, checked under Spec                  *)
(***************************************************************************)

Done(c) == dl[c].pc = "done"

\* The clean-ups a call scheduled have all run.
Settled(c) == Done(c) /\ \A tm \in timers : tm.owner # c

StepKinds(r) == [i \in 1..Len(r.steps) |-> r.steps[i].kind]

FailedOutcomes == {"status", "neterr", "throw", "blocked"}

\* C1: when the retrieval request fails, the next delivery step is the
\* direct-link save on the grant URL, and a new-context open comes only
\* right after a failed direct-link save.
C1_StrategyOrder ==
  \A c \in Calls :
    LET st == dl[c].steps
    IN Done(c) =>
         \A i \in 1..Len(st) :
           /\ (st[i].kind = "fetch" /\ st[i].outcome # "ok") =>
                /\ i < Len(st)
                /\ st[i + 1].kind = "directLink"
                /\ st[i + 1].url = dl[c].grant.url
           /\ st[i].kind = "windowOpen" =>
                /\ i > 1
                /\ st[i - 1].kind = "directLink"
                /\ st[i - 1].outcome \in FailedOutcomes

\* C2: once a download has ended and its scheduled clean-ups have run, no
\* blob URL it created is still unreleased.
C2_BlobReleased ==
  \A c \in Calls : Settled(c) => dl[c].created \cap blobStore = {}

\* C3: when the retrieval fails, no direct-link save succeeds and the new
\* context cannot be opened, the call reports AllStrategiesExhausted and
\* leaves no blob URL pending.
C3_ExhaustedReported ==
  \A c \in Calls :
    LET st == dl[c].steps
    IN ( /\ Settled(c)
         /\ dl[c].env.fetch \in {"status", "neterr"}
         /\ dl[c].env.open \in {"blocked", "throw"}
         /\ \A i \in 1..Len(st) :
              st[i].kind = "directLink" => st[i].outcome \in FailedOutcomes )
       => /\ dl[c].result = "AllStrategiesExhausted"
          /\ dl[c].created \cap blobStore = {}

\* C4: in a download whose retrieval request failed with a network error,
\* no blob URL is created and the direct-link save on the grant URL is
\* attempted; when that save succeeds it is the last step of the download.
C4_NetErrThenDirectLink ==
  \A c \in Calls :
    LET st == dl[c].steps
    IN (Done(c) /\ dl[c].env.fetch = "neterr") =>
         /\ dl[c].created = {}
         /\ \E i \in 1..Len(st) :
              /\ st[i].kind = "directLink"
              /\ st[i].url = dl[c].grant.url
              /\ st[i].outcome = "ok" => i = Len(st)

\* C5: the promise of a download call is never rejected; a call that has
\* ended has resolved, and a delivery step that failed is either followed by
\* another step or ends the call.
C5_NeverRejects ==
  \A c \in Calls :
    LET st == dl[c].steps
    IN /\ dl[c].result # "rejected"
       /\ Done(c) <=> dl[c].result = "undefined"
       /\ \A i \in 1..Len(st) :
            (st[i].outcome \in FailedOutcomes /\ i = Len(st)) => Done(c)

\* An exception thrown by window.open inside the inner catch block was
\* absorbed, and so was one thrown while extracting the storage path.
C5_Witness ==
  /\ \E c \in Calls : Done(c) /\ dl[c].env.open = "throw"
  /\ \E c \in Calls : Done(c) /\ dl[c].file # 0 /\ dl[c].requests = <<>>

\* C6: when the signing request fails and the public URL request yields no
\* URL, no delivery step is attempted and the call reports AccessDenied.
C6_AccessDeniedReported ==
  \A c \in Calls :
    (Done(c) /\ dl[c].env.sign = "error" /\ dl[c].env.public = "empty") =>
      /\ dl[c].steps = <<>>
      /\ dl[c].result = "AccessDenied"

PlatformKeys == {"fetch", "blob", "create", "click", "open"}

\* Two calls saw no platform primitive answer differently.
SamePlatform(e1, e2) ==
  \A k \in PlatformKeys : e1[k] = "unset" \/ e2[k] = "unset" \/ e1[k] = e2[k]

\* C7: a call whose grant came from the signing request and one whose grant
\* came from the public URL request, given the same platform answers,
\* attempt the same kinds of delivery steps in the same order.
C7_GrantSourceIrrelevant ==
  \A c1 \in Calls, c2 \in Calls :
    ( /\ Done(c1) /\ Done(c2)
      /\ dl[c1].grant.source = "signed"
      /\ dl[c2].grant.source = "public"
      /\ SamePlatform(dl[c1].env, dl[c2].env) )
    => StepKinds(dl[c1]) = StepKinds(dl[c2])

\* The URLs the object store answered to the requests of a call.
Obtained(r) ==
  {r.requests[j].url : j \in 1..Len(r.requests)} \ {NoUrl}

\* C8: a call makes its signing request before any delivery step, and the
\* URL of each of its delivery steps on a remote URL was answered to a
\* request of that same call and to no signing request of another call.
C8_FreshGrant ==
  \A c \in Calls :
    LET r == dl[c]
    IN /\ (r.steps # <<>> \/ r.pc \in {"fetching", "blobbing"}) =>
            /\ r.requests # <<>>
            /\ r.requests[1].op = "createSignedUrl"
       /\ r.pc \in {"fetching", "blobbing"} => DeliveryUrl(r) \in Obtained(r)
       /\ \A i \in 1..Len(r.steps) :
            r.steps[i].kind # "blobSave" =>
              /\ r.steps[i].url \in Obtained(r)
              /\ \A c2 \in Calls \ {c} :
                   r.steps[i].url.kind = "signed" =>
                     r.steps[i].url \notin Obtained(dl[c2])

\* Both calls downloaded the same file through a signed URL and fetched it.
C8_Witness ==
  /\ \A c \in Calls :
       /\ Done(c)
       /\ dl[c].file = 1
       /\ dl[c].grant.source = "signed"
       /\ \E i \in 1..Len(dl[c].steps) : dl[c].steps[i].kind = "fetch"
  /\ \E c \in Calls : dl[c].env.open = "opened"

\* C9: every request of a call to the object store is made for the storage
\* path extracted from the file's stored reference; the signing request is
\* the first one and asks for 300 seconds, the public URL request is made
\* only after the signing request answered with an error.
C9_RequestKey ==
  \A c \in Calls :
    LET r == dl[c]
    IN /\ (r.pc # "idle" /\ ~StoragePaths[r.file].threw) => r.requests # <<>>
       /\ \A j \in 1..Len(r.requests) :
            /\ r.requests[j].key = StoragePaths[r.file].value
            /\ r.requests[j].op = "createSignedUrl" =>
                 j = 1 /\ r.requests[j].ttl = 300
            /\ r.requests[j].op = "getPublicUrl" =>
                 j = 2 /\ r.env.sign = "error"

\* A file stored under a full URL was asked for with both requests.
C9_Witness ==
  \E c \in Calls :
    /\ dl[c].file # 0
    /\ Files[dl[c].file].path # StoragePaths[dl[c].file].value
    /\ Len(dl[c].requests) = 2
    /\ dl[c].requests[2].op = "getPublicUrl"

(***************************************************************************)
(* Properties of the type classification, checked under SpecFiles          *)
(***************************************************************************)

\* The steps of a call after its retrieval request.
AfterFetch(r) == SubSeq(r.steps, 2, Len(r.steps))

\* C16: a retrieval response with a non-success status is handled as a
\* transport error is: response.blob() is not called, no blob URL is created,
\* no save is triggered on a blob URL, the next delivery step is made on the
\* grant URL, and two calls that differ only in which of the two failures
\* they met go through the same steps to the same end.
C16_StatusAsTransportError ==
  /\ \A c \in Calls :
       LET st == dl[c].steps
       IN (Done(c) /\ dl[c].env.fetch \in {"status", "neterr"}) =>
            /\ dl[c].env.blob = "unset"
            /\ dl[c].env.create = "unset"
            /\ dl[c].created = {}
            /\ \A i \in 1..Len(st) : st[i].kind # "blobSave"
            /\ Len(st) >= 2
            /\ st[1].kind = "fetch"
            /\ st[2].kind \in {"directLink", "windowOpen"}
            /\ st[2].url = dl[c].grant.url
  /\ \A c1 \in Calls, c2 \in Calls :
       ( /\ Done(c1) /\ Done(c2)
         /\ dl[c1].env.fetch = "status"
         /\ dl[c2].env.fetch = "neterr"
         /\ dl[c1].env.open = dl[c2].env.open )
       => /\ StepKinds(dl[c1]) = StepKinds(dl[c2])
          /\ [i \in 1..Len(AfterFetch(dl[c1])) |-> AfterFetch(dl[c1])[i].outcome]
               = [i \in 1..Len(AfterFetch(dl[c2])) |-> AfterFetch(dl[c2])[i].outcome]
          /\ dl[c1].log = dl[c2].log
          /\ dl[c1].result = dl[c2].result

\* One call met a non-success status, another a transport error, and both
\* have ended.
C16_Witness ==
  \E c1 \in Calls, c2 \in Calls :
    /\ Done(c1) /\ Done(c2)
    /\ dl[c1].env.fetch = "status"
    /\ dl[c2].env.fetch = "neterr"
    /\ dl[c1].env.open = dl[c2].env.open

\* The delivery steps of a call whose retrieval succeeded and whose body was
\* saved under the file name.
SavedOnce(r) ==
  /\ Len(r.steps) = 2
  /\ r.steps[1].kind = "fetch" /\ r.steps[1].outcome = "ok"
  /\ r.steps[2].kind = "blobSave" /\ r.steps[2].outcome = "ok"
  /\ r.steps[2].name = Files[r.file].name
  /\ r.steps[2].url \in {BlobUrl(b) : b \in r.created}
  /\ r.result = "undefined"
  /\ r.env.open = "unset"

SavedBlobs(r) ==
  {b \in 1..nextBlob : \E i \in 1..Len(r.steps) :
     r.steps[i].kind = "blobSave" /\ r.steps[i].url = BlobUrl(b)}

\* C18: whatever the interleaving of the calls, a call revokes only a blob
\* URL it created itself, while that URL is still live (so at most once) and
\* after it triggered its own save on it; no blob URL belongs to two calls
\* and no call saves from or schedules the release of another call's.
C18_OwnBlobOnly ==
  /\ \A x \in revoked :
       /\ x.blob \in dl[x.by].created
       /\ x.live
       /\ x.blob \in SavedBlobs(dl[x.by])
       /\ x.blob \notin blobStore
  /\ \A c1 \in Calls, c2 \in Calls :
       c1 # c2 => /\ dl[c1].created \cap dl[c2].created = {}
                  /\ SavedBlobs(dl[c1]) \cap dl[c2].created = {}
  /\ \A c \in Calls : SavedBlobs(dl[c]) \subseteq dl[c].created
  /\ \A tm \in timers : tm.blob # 0 => tm.blob \in SavedBlobs(dl[tm.owner])

\* Two calls were in flight together, each created a blob URL, and one has
\* revoked its own while the other's is still live.
C18_Witness ==
  \E x \in revoked : \E c \in Calls :
    /\ c # x.by
    /\ x.blob \in dl[x.by].created
    /\ dl[c].created \cap blobStore # {}
    /\ \E b \in dl[c].created : b < x.blob

\* A call has been made.
Started(c) == dl[c].pc # "idle"

\* C19 as stated: with the signing and the retrieval request answered and
\* the clean-ups run, every call that started ends, and a call that has not
\* ended waits for one of those two requests.
C19_EndsGivenTwoResponses ==
  /\ \A c \in Calls : Started(c) ~> Done(c)
  /\ [](\A c \in Calls : Started(c) /\ ~Done(c) => dl[c].pc \in {"signing", "fetching"})

\* C19, amended: under the same assumptions every call that started ends or
\* comes to wait for the body of a successful response, and a call that has
\* not ended waits for the signing request, the retrieval request or
\* response.blob().
C19_EndsOrAwaitsBody ==
  /\ \A c \in Calls : Started(c) ~> (Done(c) \/ dl[c].pc = "blobbing")
  /\ [](\A c \in Calls :
          Started(c) /\ ~Done(c) => dl[c].pc \in {"signing", "fetching", "blobbing"})

\* A call waits for the body of a successful response while another has
\* ended.
C19_Witness ==
  \E c1 \in Calls, c2 \in Calls :
    /\ dl[c1].pc = "blobbing" /\ dl[c1].env.fetch = "ok"
    /\ Done(c2)

\* The positions of the delivery actions among the steps of a call: saves
\* and opens, not the retrieval request.
Deliveries(r) ==
  {i \in 1..Len(r.steps) : r.steps[i].kind \in {"blobSave", "directLink", "windowOpen"}}

\* A delivery action that ran to its end.
Completed(step) == step.outcome \in {"ok", "opened"}

\* C23: in one call at most one delivery action completes; a click on the
\* public URL is the only delivery action of its call, and a window.open
\* comes together with a blob save only right after one that threw.
C23_OneDelivery ==
  \A c \in Calls :
    LET st == dl[c].steps
        D == Deliveries(dl[c])
    IN /\ Cardinality({i \in D : Completed(st[i])}) <= 1
       /\ (\E i \in D : st[i].kind = "directLink") => Cardinality(D) = 1
       /\ \A i \in D, j \in D :
            i < j => /\ st[i].kind = "blobSave"
                     /\ st[i].outcome = "throw"
                     /\ st[j].kind = "windowOpen"
                     /\ j = i + 1

\* One call opened the signed URL after its blob save threw, another one
\* completed the click on the public URL.
C23_Witness ==
  \E c1 \in Calls, c2 \in Calls :
    /\ Done(c1) /\ Done(c2)
    /\ StepKinds(dl[c1]) = <<"fetch", "blobSave", "windowOpen">>
    /\ dl[c1].steps[2].outcome = "throw"
    /\ dl[c1].steps[3].outcome = "opened"
    /\ StepKinds(dl[c2]) = <<"directLink">>
    /\ dl[c2].steps[1].outcome = "ok"

\* The file name has no extension: no dot, or nothing after the last dot.
NoExtension(name) ==
  \/ \A i \in 1..Len(name) : name[i] # "."
  \/ name # <<>> /\ name[Len(name)] = "."

\* C10: every loaded record gets a non-empty type tag, and the tag is
\* "file" when the stored metadata is empty or "file" and the file name has
\* no extension.
C10_ClassifyTotal ==
  \A i \in 1..Len(files) :
    /\ files[i].type # <<>>
    /\ (data[i].type \in {<<>>, FileTag} /\ NoExtension(data[i].name)) =>
         files[i].type = FileTag

(***************************************************************************)
(* Properties of the type classification, checked under SpecClassify       *)
(***************************************************************************)

\* The sixteen MIME types the specification lists, each with its tag.
ListedTags ==
  {
    [mime |-> <<"i","m","a","g","e","/","p","n","g">>,
     tag |-> <<"p","n","g">>],
    [mime |-> <<"i","m","a","g","e","/","j","p","e","g">>,
     tag |-> <<"j","p","g">>],
    [mime |-> <<"i","m","a","g","e","/","g","i","f">>,
     tag |-> <<"g","i","f">>],
    [mime |-> <<"i","m","a","g","e","/","s","v","g","+","x","m","l">>,
     tag |-> <<"s","v","g">>],
    [mime |-> <<"a","p","p","l","i","c","a","t","i","o","n","/","p","d","f">>,
     tag |-> <<"p","d","f">>],
    [mime |-> <<"a","p","p","l","i","c","a","t","i","o","n","/","v","n","d",".","o","p","e","n","x","m","l","f","o","r","m","a","t","s","-","o","f","f","i","c","e","d","o","c","u","m","e","n","t",".","w","o","r","d","p","r","o","c","e","s","s","i","n","g","m","l",".","d","o","c","u","m","e","n","t">>,
     tag |-> <<"d","o","c","x">>],
    [mime |-> <<"a","p","p","l","i","c","a","t","i","o","n","/","v","n","d",".","o","p","e","n","x","m","l","f","o","r","m","a","t","s","-","o","f","f","i","c","e","d","o","c","u","m","e","n","t",".","s","p","r","e","a","d","s","h","e","e","t","m","l",".","s","h","e","e","t">>,
     tag |-> <<"x","l","s","x">>],
    [mime |-> <<"a","p","p","l","i","c","a","t","i","o","n","/","v","n","d",".","o","p","e","n","x","m","l","f","o","r","m","a","t","s","-","o","f","f","i","c","e","d","o","c","u","m","e","n","t",".","p","r","e","s","e","n","t","a","t","i","o","n","m","l",".","p","r","e","s","e","n","t","a","t","i","o","n">>,
     tag |-> <<"p","p","t","x">>],
    [mime |-> <<"t","e","x","t","/","p","l","a","i","n">>,
     tag |-> <<"t","x","t">>],
    [mime |-> <<"v","i","d","e","o","/","m","p","4">>,
     tag |-> <<"m","p","4">>],
    [mime |-> <<"v","i","d","e","o","/","a","v","i">>,
     tag |-> <<"a","v","i">>],
    [mime |-> <<"v","i","d","e","o","/","m","o","v">>,
     tag |-> <<"m","o","v">>],
    [mime |-> <<"a","u","d","i","o","/","m","p","3">>,
     tag |-> <<"m","p","3">>],
    [mime |-> <<"a","u","d","i","o","/","w","a","v">>,
     tag |-> <<"w","a","v">>],
    [mime |-> <<"a","p","p","l","i","c","a","t","i","o","n","/","z","i","p">>,
     tag |-> <<"z","i","p">>],
    [mime |-> <<"a","p","p","l","i","c","a","t","i","o","n","/","x","-","r","a","r","-","c","o","m","p","r","e","s","s","e","d">>,
     tag |-> <<"r","a","r">>]
  }

\* C11: a record whose stored type is one of the listed MIME types gets the
\* listed tag, whatever its file name is.
C11_ListedMimeTag ==
  \A i \in 1..Len(files) :
    \A e \in ListedTags : data[i].type = e.mime => files[i].type = e.tag

\* A word-processing document named like a picture is tagged docx, and the
\* row loaded is one of a listed type.
C11_Witness ==
  /\ Len(files) = 1
  /\ data[1].type = <<"a","p","p","l","i","c","a","t","i","o","n","/","v","n","d",".","o","p","e","n","x","m","l","f","o","r","m","a","t","s","-","o","f","f","i","c","e","d","o","c","u","m","e","n","t",".","w","o","r","d","p","r","o","c","e","s","s","i","n","g","m","l",".","d","o","c","u","m","e","n","t">>
  /\ data[1].name = <<"P","h","o","t","o",".","P","N","G">>
  /\ files[1].type = <<"d","o","c","x">>

\* Index of the last "." of name, 0 if there is none.
LastDot(name) ==
  IF \E i \in 1..Len(name) : name[i] = "."
    THEN CHOOSE i \in 1..Len(name) :
           name[i] = "." /\ \A j \in (i + 1)..Len(name) : name[j] # "."
    ELSE 0

\* The lower-cased extension of a file name, "file" if it has none.
ExtensionTag(name) ==
  IF NoExtension(name) THEN FileTag
  ELSE toLowerCase(SubSeq(name, LastDot(name) + 1, Len(name)))

\* C12: a record whose stored type is empty or "file" gets the lower-cased
\* final extension of its file name, and "file" when the name has no dot or
\* nothing after its last dot.
C12_ExtensionOrFile ==
  \A i \in 1..Len(files) :
    data[i].type \in {<<>>, FileTag} => files[i].type = ExtensionTag(data[i].name)

Compound(type) == \E k \in 1..Len(type) : type[k] = "/"

Listed(type) == \E k \in 1..Len(mimeToExt) : mimeToExt[k][1] = type

\* All that follows the first separator of a compound type.
AfterSeparator(type) ==
  SubSeq(type, (CHOOSE k \in 1..Len(type) :
                  type[k] = "/" /\ \A j \in 1..(k - 1) : type[j] # "/") + 1,
         Len(type))

\* What follows the first separator of a compound type, up to the next
\* separator or the end.
SegmentAfterSeparator(type) ==
  LET rest == AfterSeparator(type)
  IN IF \E k \in 1..Len(rest) : rest[k] = "/"
       THEN SubSeq(rest, 1, (CHOOSE k \in 1..Len(rest) :
                               rest[k] = "/" /\ \A j \in 1..(k - 1) : rest[j] # "/") - 1)
       ELSE rest

\* C20 as stated: a record whose stored type is compound and not in the
\* table gets all that follows the first separator as its tag.
C20_WholeAfterSeparator ==
  \A i \in 1..Len(files) :
    (Compound(data[i].type) /\ ~Listed(data[i].type)) =>
      files[i].type = AfterSeparator(data[i].type)

\* C20 as amended: a record whose stored type is compound and not in the
\* table gets what lies between the first separator and the next one (or
\* the end) as its tag, whatever its file name is, when that part is neither
\* empty nor "file"; otherwise it is tagged as a record of the same name
\* with empty type metadata.
C20_SegmentAfterSeparator ==
  \A i \in 1..Len(files) :
    (Compound(data[i].type) /\ ~Listed(data[i].type)) =>
      LET seg == SegmentAfterSeparator(data[i].type)
      IN IF seg # <<>> /\ seg # FileTag
           THEN files[i].type = seg
           ELSE files[i].type = classify(<<>>, data[i].name)

\* A type with two separators was tagged with the part between them.
C20_Witness ==
  /\ Len(files) = 1
  /\ data[1].type = <<"a","/","b","/","c">>
  /\ data[1].name = <<"P","h","o","t","o",".","P","N","G">>
  /\ files[1].type = <<"b">>

(***************************************************************************)
(* Claims about extractStoragePath, checked under SpecResolve              *)
(***************************************************************************)

Http == <<"h","t","t","p">>

\* The characters of a string that are not part of any returned text: the
\* marker decodeURIComponent yields when it throws.
HasErrorMark(s) == \E i \in 1..Len(s) : s[i] = URIError

\* C13: extractStoragePath never throws on a string: it returns a string,
\* and for a reference that starts with "http" but is not a parseable URL, or
\* whose path has malformed percent-escapes, it returns the reference itself.
C13_NeverThrows ==
  refOut.run =>
    /\ ~refOut.threw
    /\ ~HasErrorMark(refOut.value)
    /\ (startsWith(refIn, Http) /\ ~parseURL(refIn).ok => refOut.value = refIn)
    /\ (startsWith(refIn, Http) /\ parseURL(refIn).ok
          /\ ~StoragePathOf(split(parseURL(refIn).pathname, "/")).ok
        => refOut.value = refIn)

\* A URL with a malformed escape and a string that is no URL have both been
\* resolved to themselves.
C13_Witness ==
  /\ refOut.run
  /\ startsWith(refIn, Http)
  /\ parseURL(refIn).ok
  /\ ~StoragePathOf(split(parseURL(refIn).pathname, "/")).ok
  /\ refOut.value = refIn

\* C14: extractStoragePath is idempotent: applied to its own result it
\* returns that result.
C14_Idempotent ==
  refAgain.run => ~refAgain.threw /\ refAgain.value = refOut.value

\* The path segments of a parseable URL reference.
Segments(ref) == split(parseURL(ref).pathname, "/")

HasMarker(ref) ==
  /\ startsWith(ref, Http)
  /\ parseURL(ref).ok
  /\ \E i \in 1..Len(Segments(ref)) : Segments(ref)[i] = Bucket

FirstMarker(parts) ==
  CHOOSE i \in 1..Len(parts) :
    parts[i] = Bucket /\ \A j \in 1..(i - 1) : parts[j] # Bucket

AfterMarker(parts) == join(SubSeq(parts, FirstMarker(parts) + 1, Len(parts)), "/")

\* C15: for a URL whose path has the student-files segment, the result is
\* the segments after that segment joined with "/" and URL-decoded.
C15_AfterMarkerDecoded ==
  refOut.run /\ HasMarker(refIn) =>
    /\ decodeURIComponent(AfterMarker(Segments(refIn))).ok
    /\ refOut.value = decodeURIComponent(AfterMarker(Segments(refIn))).value

\* The final path segment of a parseable URL reference.
LastSegment(ref) == Segments(ref)[Len(Segments(ref))]

\* C21: for a parseable URL whose path has no student-files segment the
\* result is the URL-decoded final path segment, and whenever the path has
\* that segment the result is the one of the extraction after it.
C21_LastSegmentWhenNoMarker ==
  (refOut.run /\ startsWith(refIn, Http) /\ parseURL(refIn).ok) =>
    IF HasMarker(refIn)
      THEN decodeURIComponent(AfterMarker(Segments(refIn))).ok
             => refOut.value = decodeURIComponent(AfterMarker(Segments(refIn))).value
      ELSE /\ decodeURIComponent(LastSegment(refIn)).ok
           /\ refOut.value = decodeURIComponent(LastSegment(refIn)).value

(***************************************************************************)
(* Claims about the displayed list, checked under SpecView                 *)
(***************************************************************************)

\* text contains term when letter case is ignored: term occurs at some
\* offset of text, character by character up to case.
ContainsNoCase(text, term) ==
  \E off \in 0..(Len(text) - Len(term)) :
    \A j \in 1..Len(term) : LowerChar(text[off + j]) = LowerChar(term[j])

\* A loaded record is shown for a search term and a selected type.
Shown(file, term, type) ==
  /\ \/ term = <<>>
     \/ ContainsNoCase(file.name, term)
     \/ file.description # NullRef /\ ContainsNoCase(file.description, term)
  /\ type = All \/ file.type = type

RECURSIVE deriveView(_, _, _)
deriveView(allFiles, term, type) ==
  IF allFiles = <<>> THEN <<>>
  ELSE (IF Shown(Head(allFiles), term, type) THEN <<Head(allFiles)>> ELSE <<>>)
       \o deriveView(Tail(allFiles), term, type)

\* C22: whenever the effect that recomputes the list is not due, the
\* displayed list is deriveView of the loaded files, the search term and the
\* selected type.
C22_ViewIsDerived ==
  ~filterPending => filteredFiles = deriveView(files, searchTerm, selectedType)

\* After a load, a search term and a type were chosen and the effect has
\* run: a record is shown because its description contains the term in
\* another letter case, and another record is left out.
C22_Witness ==
  /\ ~filterPending
  /\ searchTerm = <<"N","O","T","E","S">>
  /\ selectedType # All
  /\ Len(files) = 2
  /\ Len(filteredFiles) = 1
  /\ ~ContainsNoCase(filteredFiles[1].name, searchTerm)
  /\ filteredFiles[1].description = <<"s","e","e"," ","N","o","t","e","s">>

(***************************************************************************)
(* Claims about the delete-user dialog, checked under SpecAdmin            *)
(***************************************************************************)

\* The delete request of some mutation fails in this step.
DeleteFails ==
  \E i \in 1..Len(mutations) :
    mutations[i].status = "pending" /\ mutations'[i].status = "error"

\* The delete request of some mutation succeeds in this step.
DeleteSucceeds ==
  \E i \in 1..Len(mutations) :
    mutations[i].status = "pending" /\ mutations'[i].status = "success"

\* A step that closes the dialog or clears its selected user.
DialogCleared ==
  /\ deleteDialog' # deleteDialog
  /\ ~deleteDialog'.isOpen \/ deleteDialog'.user = NoStudent

C24_Step ==
  /\ DialogCleared => \/ adminEvent'.kind = "handleCloseDeleteDialog"
                      \/ DeleteSucceeds
  /\ DeleteFails => /\ deleteDialog' = deleteDialog
                    /\ invalidated' = invalidated
  /\ invalidated' # invalidated => DeleteSucceeds
  /\ (adminEvent'.kind = "handleConfirmDelete" /\ deleteDialog.user = NoStudent)
       => mutations' = mutations

\* C24: the dialog is closed or its user cleared only by
\* handleCloseDeleteDialog or by a delete request that succeeds; a delete
\* request that fails, the one without a session included, leaves the dialog
\* and its user as they are and invalidates nothing; handleConfirmDelete
\* with no user selected starts no delete request.
C24_DialogClosedByCloseOrSuccess == [][C24_Step]_vars

\* A delete request failed for want of a session and the dialog is still
\* open on the same user, nothing invalidated; a request of another call
\* is still pending.
C24_Witness ==
  \E i \in 1..Len(mutations), j \in 1..Len(mutations) :
    /\ mutations[i].status = "error"
    /\ mutations[i].error = "No active session"
    /\ adminEvent = Event("onError", i)
    /\ deleteDialog = [isOpen |-> TRUE, user |-> mutations[i].userId]
    /\ invalidated = 0
    /\ mutations[j].status = "pending"

(***************************************************************************)
(* Claims about the redirect after login, checked under SpecAuth           *)
(***************************************************************************)

\* C25: navigate('/admin') is called only for a role query that succeeded
\* with the role "admin"; for any other role, an error or an exception
\* navigate('/dashboard') is called; and navigate is not called while no
\* user is signed in.
C25_RedirectByRole ==
  \A n \in 1..Len(navigations) :
    LET nav == navigations[n]
        answer == lookups[nav.run].answer
    IN /\ nav.to = "/admin" <=> (answer.kind = "data" /\ answer.role = "admin")
       /\ nav.to \in {"/admin", "/dashboard"}
       /\ nav.user # SignedOut

====
